---- MODULE Spec2Model ----
(***************************************************************************)
(* Model of the hybrid crisis-detection / analysis-fusion / response       *)
(* pipeline of OMANI-Therapist-Voice: backend/app/services/                *)
(* therapy_service.py, backend/app/services/ai_service.py and the turn     *)
(* handlers process_voice_conversation of backend/main.py (Spec) and       *)
(* process_voice of backend/app/api/router.py (SpecHttp).                  *)
(*                                                                         *)
(* Texts are sequences of symbols.  A symbol is either one Latin           *)
(* character, one whitespace character, or one fragment of Arabic text     *)
(* (written in transliteration).  Python dicts are records whose field set *)
(* is the set of keys that are present; confidences are in hundredths.     *)
(***************************************************************************)
EXTENDS Integers, Sequences, FiniteSets, TLC

\* ---------------------------------------------------------------- bounds
\* longest transcript, in symbols
MaxTranscriptLen == 2

\* number of turns handled before the model stops taking new ones
MaxTurns == 2

\* process_voice requests the server handles at the same time
MaxRequests == 2

\* ------------------------------------------------------------ text helpers
\* str.strip(): the characters removed at both ends
IsSpace(c) == c \in {" ", "\n"}

RECURSIVE LStrip(_)
LStrip(s) == IF s # <<>> /\ IsSpace(Head(s)) THEN LStrip(Tail(s)) ELSE s

RECURSIVE RStrip(_)
RStrip(s) ==
    IF s # <<>> /\ IsSpace(s[Len(s)]) THEN RStrip(SubSeq(s, 1, Len(s) - 1)) ELSE s

Strip(s) == RStrip(LStrip(s))

\* str.upper() on one symbol: Latin lower case goes to upper case, every
\* other symbol (upper case, punctuation, whitespace, Arabic) is unchanged
UpperChar(c) ==
    CASE c = "a" -> "A" [] c = "p" -> "P" [] c = "r" -> "R" [] c = "o" -> "O"
      [] c = "v" -> "V" [] c = "e" -> "E" [] c = "d" -> "D" [] c = "n" -> "N"
      [] c = "t" -> "T" [] OTHER -> c

Upper(s) == [i \in 1..Len(s) |-> UpperChar(s[i])]

\* str.startswith(prefix)
StartsWith(s, prefix) ==
    /\ Len(prefix) <= Len(s)
    /\ SubSeq(s, 1, Len(prefix)) = prefix

\* 'sub in s' for strings: sub occurs as a contiguous run of s
Contains(s, sub) ==
    \E i \in 0..(Len(s) - Len(sub)) : SubSeq(s, i + 1, i + Len(sub)) = sub

\* re.search(pattern, text, re.IGNORECASE) for the literal patterns of the
\* table: a case-folded substring search
re_search(pattern, text) == Contains(Upper(text), Upper(pattern))

\* ------------------------------------------------------- the pattern table
\* self.crisis_patterns as built by __init__ (an insertion-ordered dict:
\* a sequence of entries, each with its ordered pattern list)
DefaultCrisisPatterns ==
    << [risk_type |-> "suicide_ideation",
        patterns  |-> << <<"urid_an_amut">>, <<"qatl_nafsi">>, <<"intihar">>,
                         <<"la_astati_alaysh">>, <<"afdal_almawt">>,
                         <<"la_faida", "min_alhayat">>,
                         <<"urid_inha_hayati">> >>],
       [risk_type |-> "self_harm",
        patterns  |-> << <<"ajrah_nafsi">>, <<"udhi_nafsi">>,
                         <<"aqta_nafsi">>, <<"ahriq_nafsi">> >>],
       [risk_type |-> "hopelessness",
        patterns  |-> << <<"la_amal">>, <<"la_faida">>, <<"mustahil">>,
                         <<"la_ara_makhraj">>, <<"dai">> >>] >>

\* the table extended by one further category (CrisisCategory is an
\* extensible set: any category other than the three above rates medium)
ExtendedCrisisPatterns ==
    Append(DefaultCrisisPatterns,
           [risk_type |-> "isolation", patterns |-> << <<"wahid">> >>])

PatternTables == {DefaultCrisisPatterns, ExtendedCrisisPatterns}

\* ---------------------------------------------------- _rule_based_analysis
\* the (risk_type, pattern) pairs in the order the two nested loops visit them
RECURSIVE FlattenPatterns(_)
FlattenPatterns(table) ==
    IF table = <<>> THEN <<>>
    ELSE [i \in 1..Len(Head(table).patterns) |->
             [risk_type |-> Head(table).risk_type,
              pattern   |-> Head(table).patterns[i]]]
         \o FlattenPatterns(Tail(table))

\* risk_indicators: one append per matching pattern
RECURSIVE MatchIndicators(_, _)
MatchIndicators(pairs, text) ==
    IF pairs = <<>> THEN <<>>
    ELSE (IF re_search(Head(pairs).pattern, text)
            THEN <<Head(pairs).risk_type>> ELSE <<>>)
         \o MatchIndicators(Tail(pairs), text)

InList(x, list) == \E i \in 1..Len(list) : list[i] = x

\* fault model for RiskLevel: the hopelessness test placed first in the chain
RiskLevel_hopelessness_first(risk_indicators) ==
    IF InList("hopelessness", risk_indicators) THEN "high"
    ELSE IF InList("suicide_ideation", risk_indicators)
            \/ InList("self_harm", risk_indicators) THEN "critical"
    ELSE IF risk_indicators # <<>> THEN "medium"
    ELSE "low"

\* fault model for RiskLevel: self_harm left out of the first test, so that
\* it rates like any other category
RiskLevel_self_harm_unranked(risk_indicators) ==
    IF InList("suicide_ideation", risk_indicators) THEN "critical"
    ELSE IF InList("hopelessness", risk_indicators) THEN "high"
    ELSE IF risk_indicators # <<>> THEN "medium"
    ELSE "low"

\* the if / elif chain deriving risk_level from risk_indicators
RiskLevel(risk_indicators) ==
    IF InList("suicide_ideation", risk_indicators)
       \/ InList("self_harm", risk_indicators) THEN "critical"
    ELSE IF InList("hopelessness", risk_indicators) THEN "high"
    ELSE IF risk_indicators # <<>> THEN "medium"
    ELSE "low"

\* fault model for rule_based_analysis: the confidence follows the risk
\* level instead of the presence of indicators
rule_based_analysis_confidence_by_level(table, text) ==
    LET risk_indicators == MatchIndicators(FlattenPatterns(table), text)
        risk_level      == RiskLevel(risk_indicators)
    IN  [source            |-> "rule_based",
         emotional_state   |-> "neutral",
         intent            |-> "unknown",
         crisis_assessment |->
             [risk_level            |-> risk_level,
              indicators            |-> risk_indicators,
              requires_intervention |-> risk_level \in {"high", "critical"},
              escalation_required   |-> risk_level = "critical"],
         confidence        |-> IF risk_level \in {"high", "critical"}
                               THEN 60 ELSE 30]

\* _rule_based_analysis: the scan, the level, the returned dict
rule_based_analysis(table, text) ==
    LET risk_indicators == MatchIndicators(FlattenPatterns(table), text)
        risk_level      == RiskLevel(risk_indicators)
    IN  [source            |-> "rule_based",
         emotional_state   |-> "neutral",
         intent            |-> "unknown",
         crisis_assessment |->
             [risk_level            |-> risk_level,
              indicators            |-> risk_indicators,
              requires_intervention |-> risk_level \in {"high", "critical"},
              escalation_required   |-> risk_level = "critical"],
         confidence        |-> IF risk_indicators # <<>> THEN 60 ELSE 30]

\* ------------------------------------------------------------ dict helpers
\* {**d, **e}: the keys of both, e winning on the keys they share
Merge(d, e) ==
    [k \in DOMAIN d \cup DOMAIN e |-> IF k \in DOMAIN e THEN e[k] ELSE d[k]]

\* Python None where a dict is expected
NoValue == [none |-> TRUE]

\* Python None where a str is expected
NoneText == <<"<None>">>

\* a JSON value that is a scalar where the schema has an object; subscripting
\* it with a string key raises TypeError
JsonScalar == [json_scalar |-> "moderate"]
IsObject(v) == "json_scalar" \notin DOMAIN v

\* a JSON value that is an object or array where the schema has a string;
\* such a value is not hashable in Python
JsonObjectValue == "{object}"
IsHashable(v) == v # JsonObjectValue

\* -------------------------------------------- the analyzer model's replies
\* what the chat-completion request of _llm_based_analysis can come back
\* with: the request raises, the message has no content, the content is not
\* JSON, the content is JSON but not an object, or it is a JSON object
CrisisOptions ==
    { [risk_level |-> l, requires_intervention |-> l \in {"high", "critical"}] :
          l \in {"low", "medium", "high", "critical", "severe"} }
    \cup { [requires_intervention |-> FALSE], JsonScalar,
           [risk_level |-> "high", requires_intervention |-> TRUE,
            confidence |-> 90] }

\* the keys of the schema other than crisis_assessment and emotional_state
SchemaRest ==
    [intent                |-> "seek_support",
     recommended_technique |-> "grounding",
     cultural_context      |-> [religious |-> FALSE, family |-> TRUE,
                                social |-> FALSE]]

\* keys a model may add on its own, colliding with keys the service sets
OwnKeys == [is_crisis |-> FALSE, confidence |-> 30, source |-> "model"]

WithCrisis(d, c) ==
    IF c = NoValue THEN d ELSE Merge(d, [crisis_assessment |-> c])

WithEmotion(d, e) ==
    IF e = "" THEN d ELSE Merge(d, [emotional_state |-> e])

LowCrisis == [risk_level |-> "low", requires_intervention |-> FALSE]

\* JSON objects the analyzer model may answer with: every crisis_assessment
\* option (absent included); colliding keys next to a low, a critical and an
\* absent crisis_assessment; an absent or non-string emotional_state; an
\* object with hardly any schema key
AnalyzerPayloads ==
    { WithEmotion(WithCrisis(SchemaRest, c), "sadness") :
          c \in CrisisOptions \cup {NoValue} }
    \cup { WithEmotion(WithCrisis(Merge(SchemaRest, OwnKeys), c), "sadness") :
          c \in {LowCrisis, NoValue,
                 [risk_level |-> "critical", requires_intervention |-> TRUE]} }
    \cup { WithEmotion(WithCrisis(SchemaRest, c), e) :
          c \in {LowCrisis, NoValue}, e \in {"", JsonObjectValue} }
    \cup { WithCrisis([intent |-> "seek_support"], LowCrisis) }

AnalyzerOutcomes ==
    { [kind |-> k, payload |-> NoValue] :
          k \in {"error", "no_content", "not_json", "json_non_object"} }
    \cup { [kind |-> "json_object", payload |-> p] : p \in AnalyzerPayloads }

\* ----------------------------------------------------- _llm_based_analysis
\* the dict returned by the except branch
LlmDefault ==
    [source            |-> "llm",
     emotional_state   |-> "neutral",
     intent            |-> "general_conversation",
     crisis_assessment |-> [risk_level            |-> "low",
                            requires_intervention |-> FALSE,
                            escalation_required   |-> FALSE],
     confidence        |-> 0]

\* fault model for llm_based_analysis: JSON that is not an object (null, a
\* list) is taken for an empty object instead of raising
llm_based_analysis_lenient(client, outcome) ==
    IF client = "None" \/ outcome.kind \in {"error", "no_content", "not_json"}
    THEN LlmDefault
    ELSE IF outcome.kind = "json_non_object"
    THEN [source |-> "llm", confidence |-> 80]
    ELSE Merge(Merge([source |-> "llm"], outcome.payload), [confidence |-> 80])

\* fault model for llm_based_analysis: the model's keys unpacked last, so
\* that a confidence (or source) the model reports wins over the constant
llm_based_analysis_own_confidence(client, outcome) ==
    IF client = "None" \/ outcome.kind # "json_object"
    THEN LlmDefault
    ELSE Merge([source |-> "llm", confidence |-> 80], outcome.payload)

\* client is self.client ("None" or "client"); outcome is what the request
\* returns when it is made.  Every exception of the try block (attribute
\* access on a None client, a raising request, json.loads on None or on
\* non-JSON text, ** on a non-mapping) lands in the except branch.
llm_based_analysis(client, outcome) ==
    IF client = "None" \/ outcome.kind # "json_object"
    THEN LlmDefault
    ELSE Merge(Merge([source |-> "llm"], outcome.payload), [confidence |-> 80])

\* ----------------------------------------------------------- _fuse_analysis
\* the result of a call: the exception raised ("none" if it returned) and
\* the value returned
Returned(v) == [raised |-> "none", value |-> v]
Raised(e)   == [raised |-> e, value |-> NoValue]

\* fault model for fuse_analysis: the analyzer's keys unpacked last, so that
\* its own crisis_assessment and is_crisis win over the rule-based ones
fuse_analysis_llm_wins(rule_based, llm_based) ==
    LET crisis == rule_based.crisis_assessment IN
    IF crisis.risk_level \in {"high", "critical"}
    THEN Returned(Merge([crisis_assessment |-> crisis, is_crisis |-> TRUE],
                        llm_based))
    ELSE IF "crisis_assessment" \notin DOMAIN llm_based THEN Raised("KeyError")
    ELSE IF ~IsObject(llm_based.crisis_assessment) THEN Raised("TypeError")
    ELSE IF "risk_level" \notin DOMAIN llm_based.crisis_assessment
         THEN Raised("KeyError")
    ELSE Returned(Merge(llm_based,
             [is_crisis |-> llm_based.crisis_assessment.risk_level
                              \in {"high", "critical"}]))

\* fault model for fuse_analysis: only a critical rule-based level overrides
fuse_analysis_critical_only(rule_based, llm_based) ==
    LET crisis == rule_based.crisis_assessment IN
    IF crisis.risk_level = "critical"
    THEN Returned(Merge(llm_based,
                        [crisis_assessment |-> crisis, is_crisis |-> TRUE]))
    ELSE IF "crisis_assessment" \notin DOMAIN llm_based THEN Raised("KeyError")
    ELSE IF ~IsObject(llm_based.crisis_assessment) THEN Raised("TypeError")
    ELSE IF "risk_level" \notin DOMAIN llm_based.crisis_assessment
         THEN Raised("KeyError")
    ELSE Returned(Merge(llm_based,
             [is_crisis |-> llm_based.crisis_assessment.risk_level
                              \in {"high", "critical"}]))

\* fault model for fuse_analysis: without a rule-based alarm, an is_crisis
\* key the analyzer supplied itself is kept
fuse_analysis_own_is_crisis(rule_based, llm_based) ==
    LET crisis == rule_based.crisis_assessment IN
    IF crisis.risk_level \in {"high", "critical"}
    THEN Returned(Merge(llm_based,
                        [crisis_assessment |-> crisis, is_crisis |-> TRUE]))
    ELSE IF "crisis_assessment" \notin DOMAIN llm_based THEN Raised("KeyError")
    ELSE IF ~IsObject(llm_based.crisis_assessment) THEN Raised("TypeError")
    ELSE IF "risk_level" \notin DOMAIN llm_based.crisis_assessment
         THEN Raised("KeyError")
    ELSE Returned(Merge(
             [is_crisis |-> llm_based.crisis_assessment.risk_level
                              \in {"high", "critical"}],
             llm_based))

\* fault model for fuse_analysis: on a rule-based alarm the whole rule-based
\* result is unpacked over the analyzer's, not only its crisis_assessment
fuse_analysis_rule_fields(rule_based, llm_based) ==
    LET crisis == rule_based.crisis_assessment IN
    IF crisis.risk_level \in {"high", "critical"}
    THEN Returned(Merge(Merge(llm_based, rule_based), [is_crisis |-> TRUE]))
    ELSE IF "crisis_assessment" \notin DOMAIN llm_based THEN Raised("KeyError")
    ELSE IF ~IsObject(llm_based.crisis_assessment) THEN Raised("TypeError")
    ELSE IF "risk_level" \notin DOMAIN llm_based.crisis_assessment
         THEN Raised("KeyError")
    ELSE Returned(Merge(llm_based,
             [is_crisis |-> llm_based.crisis_assessment.risk_level
                              \in {"high", "critical"}]))

\* _fuse_analysis: the safety-first branch, else the analyzer's result with
\* is_crisis computed from its risk level
fuse_analysis(rule_based, llm_based) ==
    LET crisis == rule_based.crisis_assessment IN
    IF crisis.risk_level \in {"high", "critical"}
    THEN Returned(Merge(llm_based,
                        [crisis_assessment |-> crisis, is_crisis |-> TRUE]))
    ELSE IF "crisis_assessment" \notin DOMAIN llm_based THEN Raised("KeyError")
    ELSE IF ~IsObject(llm_based.crisis_assessment) THEN Raised("TypeError")
    ELSE IF "risk_level" \notin DOMAIN llm_based.crisis_assessment
         THEN Raised("KeyError")
    ELSE Returned(Merge(llm_based,
             [is_crisis |-> llm_based.crisis_assessment.risk_level
                              \in {"high", "critical"}]))

\* --------------------------------------------- _generate_fallback_response
\* the catalog fallback_responses, each reply a sequence of fragments
FallbackCatalog ==
    [crisis  |-> <<"afham_annak_tamurr_biwaqt_saab", "ana_huna_limusaadatik">>,
     anxiety |-> <<"alqalaq_amr_tabii", "daana_natahaddath">>,
     sadness |-> <<"ara_annak_tashur_bilhuzn", "hal_turid_attahadduth">>,
     general |-> <<"shukran_lak", "kayfa_yumkinuni_musaadatuk">>]

generate_fallback_response(transcript, analysis) ==
    LET emotional_state ==
            IF "emotional_state" \in DOMAIN analysis
            THEN analysis.emotional_state ELSE "general"
    IN  IF ~IsHashable(emotional_state) THEN Raised("TypeError")
        ELSE Returned(
            [text |-> IF emotional_state \in DOMAIN FallbackCatalog
                      THEN FallbackCatalog[emotional_state]
                      ELSE FallbackCatalog["general"],
             model_used             |-> "fallback",
             confidence             |-> 50,
             cultural_adaptations   |-> <<"emergency_fallback">>,
             therapeutic_techniques |-> <<"active_listening">>,
             safety_assessment      |-> [risk_level |-> "low",
                                         intervention_required |-> FALSE]])

\* ---------------------------------------------- _apply_cultural_adaptations
\* any(term in text for term in terms)
AnyTermIn(terms, text) == \E t \in terms : Contains(text, t)

\* fault model for apply_cultural_adaptations: the tags found are added to
\* the tags the response already carries
apply_cultural_adaptations_accumulating(response, analysis) ==
    LET text == response.text
        found ==
            (IF Contains(text, <<"allah">>)
                \/ Contains(text, <<"in_sha", "allah">>)
               THEN <<"religious_sensitivity">> ELSE <<>>)
            \o (IF AnyTermIn({<<"aila">>, <<"walidayn">>, <<"ikhwan">>,
                              <<"akhawat">>}, text)
               THEN <<"family_context">> ELSE <<>>)
            \o (IF AnyTermIn({<<"mujtama">>, <<"adat">>, <<"taqalid">>}, text)
               THEN <<"social_norms">> ELSE <<>>)
            \o (IF AnyTermIn({<<"ilaj">>, <<"nafsi">>, <<"istishara">>,
                              <<"daam">>}, text)
               THEN <<"therapeutic_terminology">> ELSE <<>>)
        adaptations ==
            IF "adaptations" \in DOMAIN response
            THEN response.adaptations \o found ELSE found
    IN  Merge(response,
              [adaptations |-> adaptations,
               techniques  |-> <<"active_listening", "empathetic_response">>,
               safety      |-> [risk_level |-> "low",
                                intervention_required |-> FALSE]])

\* fault model for apply_cultural_adaptations: the safety entry is derived
\* from the fused analysis
apply_cultural_adaptations_risk_aware(response, analysis) ==
    LET text == response.text
        adaptations ==
            (IF Contains(text, <<"allah">>)
                \/ Contains(text, <<"in_sha", "allah">>)
               THEN <<"religious_sensitivity">> ELSE <<>>)
            \o (IF AnyTermIn({<<"aila">>, <<"walidayn">>, <<"ikhwan">>,
                              <<"akhawat">>}, text)
               THEN <<"family_context">> ELSE <<>>)
            \o (IF AnyTermIn({<<"mujtama">>, <<"adat">>, <<"taqalid">>}, text)
               THEN <<"social_norms">> ELSE <<>>)
            \o (IF AnyTermIn({<<"ilaj">>, <<"nafsi">>, <<"istishara">>,
                              <<"daam">>}, text)
               THEN <<"therapeutic_terminology">> ELSE <<>>)
    IN  Merge(response,
              [adaptations |-> adaptations,
               techniques  |-> <<"active_listening", "empathetic_response">>,
               safety      |-> [risk_level |-> analysis.crisis_assessment.risk_level,
                                intervention_required |-> analysis.is_crisis]])

\* _apply_cultural_adaptations: the dict passed in, with the three keys set
apply_cultural_adaptations(response, analysis) ==
    LET text == response.text
        adaptations ==
            (IF Contains(text, <<"allah">>)
                \/ Contains(text, <<"in_sha", "allah">>)
               THEN <<"religious_sensitivity">> ELSE <<>>)
            \o (IF AnyTermIn({<<"aila">>, <<"walidayn">>, <<"ikhwan">>,
                              <<"akhawat">>}, text)
               THEN <<"family_context">> ELSE <<>>)
            \o (IF AnyTermIn({<<"mujtama">>, <<"adat">>, <<"taqalid">>}, text)
               THEN <<"social_norms">> ELSE <<>>)
            \o (IF AnyTermIn({<<"ilaj">>, <<"nafsi">>, <<"istishara">>,
                              <<"daam">>}, text)
               THEN <<"therapeutic_terminology">> ELSE <<>>)
    IN  Merge(response,
              [adaptations |-> adaptations,
               techniques  |-> <<"active_listening", "empathetic_response">>,
               safety      |-> [risk_level |-> "low",
                                intervention_required |-> FALSE]])

\* ------------------------------------------------ _build_therapeutic_context
\* dict.get(key, default)
Get(d, key, default) == IF key \in DOMAIN d THEN d[key] ELSE default

build_therapeutic_context(transcript, analysis, session_id) ==
    [user_input        |-> transcript,
     emotional_state   |-> Get(analysis, "emotional_state", "neutral"),
     intent            |-> Get(analysis, "intent", "general_conversation"),
     cultural_context  |-> Get(analysis, "cultural_context", <<>>),
     session_metadata  |->
         [session_id  |-> session_id,
          turn_number |-> Get(analysis, "turn_number", 1),
          is_crisis   |-> Get(analysis, "is_crisis", FALSE)],
     therapeutic_goals |->
         <<"Provide empathetic support",
           "Offer culturally appropriate guidance",
           "Maintain therapeutic boundaries",
           "Ensure user safety">>]

\* -------------------------------------- generate_response: the review step
APPROVED == <<"A", "P", "P", "R", "O", "V", "E", "D">>

\* what the primary model and the review model can come back with
PrimaryContents ==
    { NoneText, <<" ">>, <<"marhaba">>,
      <<" ", "allah", "maak", "\n">>, <<"aila", "daam">> }

PrimaryOutcomes ==
    { [kind |-> "error", content |-> NoneText] }
    \cup { [kind |-> "ok", content |-> c] : c \in PrimaryContents }

ReviewTexts ==
    { APPROVED,
      <<"a", "p", "p", "r", "o", "v", "e", "d", ".">>,
      <<" ">> \o APPROVED \o <<"\n">>,
      <<"A", "P", "P", "R", "O", "V", "E">>,
      <<"N", "O", "T", " ">> \o APPROVED,
      <<"ilaj", "nafsi">>,
      <<" ", "mujtama", "\n">>,
      <<>> }

\* the review request raises, returns a falsy response object, or returns
\* a response with text
ReviewOutcomes ==
    { [kind |-> k, text |-> NoneText] : k \in {"error", "none"} }
    \cup { [kind |-> "ok", text |-> t] : t \in ReviewTexts }

\* safety_check: the stripped review text, "APPROVED" for a falsy response
SafetyCheck(review) ==
    IF review.kind = "ok" THEN Strip(review.text) ELSE APPROVED

\* fault model for FinalResponseText: the comparison made case-sensitively
FinalResponseText_case_sensitive(response_text, safety_check) ==
    IF StartsWith(safety_check, APPROVED)
    THEN response_text
    ELSE safety_check

\* the if / else that picks final_response_text
FinalResponseText(response_text, safety_check) ==
    IF StartsWith(Upper(safety_check), APPROVED)
    THEN response_text
    ELSE safety_check

\* f"{self.primary_model},{self.duel_model}" with the configured defaults
model_used_pair == "gpt-4o-mini,gemini-2.5-flash-lite"

\* the dict returned at the end of the try block
GeneratedResponse(final_response_text, analysis) ==
    LET final_response ==
            apply_cultural_adaptations(
                [text |-> final_response_text, confidence |-> 85], analysis)
    IN  [text                   |-> final_response.text,
         model_used             |-> model_used_pair,
         confidence             |-> final_response.confidence,
         cultural_adaptations   |-> final_response.adaptations,
         therapeutic_techniques |-> final_response.techniques,
         safety_assessment      |-> final_response.safety]

\* ------------------------------------------- analyze_input: the response
\* AnalysisResponse(session_id=..., emotional_state=analysis[...], ...): the
\* seven subscripts are evaluated first (KeyError on a missing key), then
\* pydantic validates the fields: emotional_state is a str, and
\* crisis_assessment is a CrisisAssessment, whose risk_level and confidence
\* are required (keys it does not declare are ignored, the others default)
AnalysisResponseKeys ==
    {"emotional_state", "intent", "crisis_assessment", "cultural_context",
     "recommended_technique", "confidence", "is_crisis"}

CrisisAssessment(d) ==
    [risk_level            |-> d.risk_level,
     indicators            |-> Get(d, "indicators", <<>>),
     requires_intervention |-> Get(d, "requires_intervention", FALSE),
     escalation_required   |-> Get(d, "escalation_required", FALSE),
     confidence            |-> d.confidence]

AnalysisResponse(session_id, analysis) ==
    IF AnalysisResponseKeys \ DOMAIN analysis # {} THEN Raised("KeyError")
    ELSE IF ~IsHashable(analysis.emotional_state) THEN Raised("ValidationError")
    ELSE IF \/ ~IsObject(analysis.crisis_assessment)
            \/ {"risk_level", "confidence"} \ DOMAIN analysis.crisis_assessment # {}
         THEN Raised("ValidationError")
    ELSE Returned(
        [session_id            |-> session_id,
         emotional_state       |-> analysis.emotional_state,
         intent                |-> analysis.intent,
         crisis_assessment     |-> CrisisAssessment(analysis.crisis_assessment),
         recommended_technique |-> analysis.recommended_technique,
         confidence            |-> analysis.confidence,
         is_crisis             |-> analysis.is_crisis])

\* ------------------------------------------------------------------ inputs
\* symbols a transcript is made of: a hopelessness pattern that is also the
\* head of a suicide_ideation pattern, the rest of that pattern (which alone
\* matches nothing), a self_harm pattern, and a pattern of the added category
TranscriptSymbols == {"la_faida", "min_alhayat", "ajrah_nafsi", "wahid"}

SeqsUpTo(S, n) == UNION { [1..k -> S] : k \in 0..n }

\* what speech_to_text can return: a text (possibly empty) or None
Transcripts == SeqsUpTo(TranscriptSymbols, MaxTranscriptLen)

Owners == {"main", "router"}

\* ------------------------------------------------------------------- state
VARIABLES
    settings,          \* OPENAI_API_KEY, GOOGLE_API_KEY: is the key set
    crisis_patterns,   \* TherapyService.crisis_patterns
    app,               \* lifespan: "constructed", "running", "failed"
    speech_service,    \* per owner: is_initialized, client
    therapy_service,   \* per owner: is_initialized, client
    ai_service,        \* per owner: is_initialized, openai_client, gemini_client
    now,               \* datetime.utcnow(), as the number of turns started
    path,              \* the handler running the turn: "ws", "http", "none"
    pc,                \* its position
    transcript,        \* locals of the turn
    rule_based,
    llm_based,
    analysis,
    response_text,
    response,
    result,            \* what the handler returned or raised
    analyzer_outcome,  \* what each external model answered in this turn
    primary_outcome,
    review_outcome,
    requests,          \* requests made to each external model in this turn
    http,              \* the process_voice requests being served (router.py)
    manager,           \* the ConnectionManager of websocket_manager
    clock,             \* datetime.utcnow() as the manager reads it, in units
                       \* of ten minutes
    uuids,             \* the number of uuid4() values drawn
    socket,            \* per websocket: the connection and its endpoint
    broadcasting       \* the connections a running broadcast() has yet to visit

services == <<speech_service, therapy_service, ai_service>>
locals   == <<transcript, rule_based, llm_based, analysis, response_text,
              response, result>>
outcomes == <<analyzer_outcome, primary_outcome, review_outcome, requests>>
\* the other parts of the application, which a turn step leaves alone
connections == <<manager, clock, uuids, socket, broadcasting>>
others   == <<http, connections>>
config   == <<settings, crisis_patterns, app, others>>
vars     == <<config, services, now, path, pc, locals, outcomes>>

Unset == [kind |-> "unset"]

\* the process_voice requests the server may be handling at once, and the
\* session ids of the database
HttpRequests == 1..MaxRequests
Sessions == {"s1", "s2"}
IdleRequest == [pc |-> "idle", session_id |-> "none"]

\* the websockets that may connect to /ws, and ConnectionManager.__init__
WebSockets == {"w1", "w2"}
EmptyDict == [k \in {} |-> "None"]
EmptyManager ==
    [active_connections  |-> <<>>,
     session_connections |-> EmptyDict,
     connection_sessions |-> EmptyDict,
     session_metadata    |-> EmptyDict]
\* a websocket nobody has connected yet
NewSocket ==
    [state |-> "new", pc |-> "none", session_id |-> "None", passed |-> "unset"]
InitConnections ==
    /\ manager = EmptyManager
    /\ clock = 0
    /\ uuids = 0
    /\ socket = [w \in WebSockets |-> NewSocket]
    /\ broadcasting = <<>>

\* no request made yet
NoRequests == [analyzer |-> 0, primary |-> 0, review |-> 0]

Init ==
    /\ settings \in [OPENAI_API_KEY : BOOLEAN, GOOGLE_API_KEY : BOOLEAN]
    /\ crisis_patterns \in PatternTables
    /\ app = "constructed"
    /\ speech_service = [o \in Owners |-> [is_initialized |-> FALSE, client |-> "None"]]
    /\ therapy_service = [o \in Owners |-> [is_initialized |-> FALSE, client |-> "None"]]
    /\ ai_service = [o \in Owners |->
           [is_initialized |-> FALSE, openai_client |-> "None",
            gemini_client |-> "None"]]
    /\ now = 0
    /\ path = "none"
    /\ pc = "idle"
    /\ transcript = NoneText
    /\ rule_based = NoValue
    /\ llm_based = NoValue
    /\ analysis = NoValue
    /\ response_text = NoneText
    /\ response = NoValue
    /\ result = NoValue
    /\ analyzer_outcome = Unset
    /\ primary_outcome = Unset
    /\ review_outcome = Unset
    /\ requests = NoRequests
    /\ http = [r \in HttpRequests |-> IdleRequest]
    /\ InitConnections

\* the service instances a handler uses: those of main.py or of router.py
Owner == IF path = "ws" THEN "main" ELSE "router"

\* ------------------------------------------------------- service.initialize
\* SpeechService.initialize / TherapyService.initialize: the state after a
\* successful call (the call raises ValueError when the key is not set)
InitializedClient == [is_initialized |-> TRUE, client |-> "client"]

\* AIService.initialize: the review client exists only with a Google key
InitializedAI ==
    [is_initialized |-> TRUE,
     openai_client  |-> "client",
     gemini_client  |-> IF settings.GOOGLE_API_KEY THEN "client" ELSE "None"]

\* lifespan(): startup initializes the three services of main.py in order;
\* the first initialize that raises aborts the startup
Lifespan ==
    /\ app = "constructed"
    /\ IF settings.OPENAI_API_KEY
       THEN /\ app' = "running"
            /\ speech_service' = [speech_service EXCEPT !["main"] = InitializedClient]
            /\ therapy_service' = [therapy_service EXCEPT !["main"] = InitializedClient]
            /\ ai_service' = [ai_service EXCEPT !["main"] = InitializedAI]
       ELSE /\ app' = "failed"
            /\ UNCHANGED services
    /\ UNCHANGED <<settings, crisis_patterns, others, now, path, pc, locals,
                   outcomes>>

\* ------------------------------------------------------ the turn handlers
\* the except clause of the handler: process_voice_conversation returns an
\* error dict, process_voice raises HTTPException(500)
HandlerError(exc) ==
    IF path = "ws"
    THEN [error |-> <<"Processing error", exc>>]
    ELSE [status_code |-> 500,
          detail |-> <<IF path = "analyze" THEN "Analysis failed"
                       ELSE "Processing failed", exc>>]

\* websocket_endpoint: one received audio message starts a turn
StartWs ==
    /\ app = "running"
    /\ pc = "idle"
    /\ now < MaxTurns
    /\ path' = "ws"
    /\ pc' = "stt"
    /\ now' = now + 1
    /\ UNCHANGED <<config, services, locals, outcomes>>

\* process_voice up to the speech-to-text request: the session lookup, the
\* audio check and the lazy initialization of the speech service.  The two
\* HTTPExceptions are raised inside the try block, whose except clause
\* catches them and raises HTTPException(500).
StartHttp ==
    /\ app = "running"
    /\ pc = "idle"
    /\ now < MaxTurns
    /\ path' = "http"
    /\ now' = now + 1
    /\ \E session_found \in BOOLEAN, audio_b64 \in BOOLEAN :
         IF ~session_found
         THEN /\ result' = [status_code |-> 500,
                            detail |-> <<"Processing failed", "404: Session not found">>]
              /\ pc' = "done"
              /\ UNCHANGED speech_service
         ELSE IF ~audio_b64
         THEN /\ result' = [status_code |-> 500,
                            detail |-> <<"Processing failed", "400: Missing audio base64 data">>]
              /\ pc' = "done"
              /\ UNCHANGED speech_service
         ELSE IF ~speech_service["router"].is_initialized /\ ~settings.OPENAI_API_KEY
         THEN /\ result' = [status_code |-> 500,
                            detail |-> <<"Processing failed", "ValueError">>]
              /\ pc' = "done"
              /\ UNCHANGED speech_service
         ELSE /\ speech_service' = [speech_service EXCEPT !["router"] = InitializedClient]
              /\ pc' = "stt"
              /\ UNCHANGED result
    /\ UNCHANGED <<config, therapy_service, ai_service, transcript, rule_based,
                   llm_based, analysis, response_text, response, outcomes>>

\* speech_to_text returns (t = NoneText: it returns None); the handler
\* leaves on a falsy transcript
SpeechToText ==
    /\ pc = "stt"
    /\ \E t \in Transcripts \cup {NoneText} :
         /\ transcript' = t
         /\ IF t = NoneText \/ t = <<>>
            THEN /\ result' = IF path = "ws"
                              THEN [error |-> <<"Could not process speech">>]
                              ELSE [status_code |-> 500,
                                    detail |-> <<"Processing failed",
                                                 "400: Could not process speech">>]
                 /\ pc' = "done"
            ELSE /\ pc' = "analyze"
                 /\ UNCHANGED result
    /\ UNCHANGED <<config, services, now, path, rule_based, llm_based, analysis,
                   response_text, response, outcomes>>

\* analyze_user_input up to the analyzer request: lazy initialization, then
\* step 1, the rule-based analysis, then the request of step 2 is made
AnalyzeStart ==
    /\ pc = "analyze"
    /\ IF ~therapy_service[Owner].is_initialized /\ ~settings.OPENAI_API_KEY
       THEN /\ result' = HandlerError("ValueError")
            /\ pc' = "done"
            /\ UNCHANGED <<therapy_service, rule_based, requests>>
       ELSE /\ therapy_service' = [therapy_service EXCEPT ![Owner] = InitializedClient]
            /\ rule_based' = rule_based_analysis(crisis_patterns, transcript)
            /\ requests' = [requests EXCEPT !.analyzer = @ + 1]
            /\ pc' = "llm_wait"
            /\ UNCHANGED result
    /\ UNCHANGED <<config, speech_service, ai_service, now, path, transcript,
                   llm_based, analysis, response_text, response,
                   analyzer_outcome, primary_outcome, review_outcome>>

\* fault model for AnalyzerReturns: a request that raised is made once more
\* before the default is used
AnalyzerReturns_retrying ==
    /\ pc = "llm_wait"
    /\ \E outcome \in AnalyzerOutcomes :
         /\ analyzer_outcome' = outcome
         /\ IF outcome.kind = "error" /\ requests.analyzer < 2
            THEN /\ requests' = [requests EXCEPT !.analyzer = @ + 1]
                 /\ pc' = "llm_wait"
                 /\ UNCHANGED llm_based
            ELSE /\ llm_based' = llm_based_analysis(therapy_service[Owner].client,
                                                   outcome)
                 /\ pc' = "fuse"
                 /\ UNCHANGED requests
    /\ UNCHANGED <<config, services, now, path, transcript, rule_based, analysis,
                   response_text, response, result, primary_outcome,
                   review_outcome>>

\* step 2: the analyzer request comes back and _llm_based_analysis returns
AnalyzerReturns ==
    /\ pc = "llm_wait"
    /\ \E outcome \in AnalyzerOutcomes :
         /\ analyzer_outcome' = outcome
         /\ llm_based' = llm_based_analysis(therapy_service[Owner].client, outcome)
    /\ pc' = "fuse"
    /\ UNCHANGED <<config, services, now, path, transcript, rule_based, analysis,
                   response_text, response, result, primary_outcome,
                   review_outcome, requests>>

\* fault model for Fuse: the fused analysis also records how many turns the
\* process has handled
Fuse_counting_turns ==
    /\ pc = "fuse"
    /\ LET fused == fuse_analysis(rule_based, llm_based) IN
         IF fused.raised # "none"
         THEN /\ result' = HandlerError(fused.raised)
              /\ pc' = "done"
              /\ UNCHANGED analysis
         ELSE /\ analysis' = Merge(fused.value,
                                   [timestamp |-> now, turn_number |-> now])
              /\ pc' = IF path = "analyze" THEN "respond" ELSE "generate"
              /\ UNCHANGED result
    /\ UNCHANGED <<config, services, now, path, transcript, rule_based, llm_based,
                   response_text, response, outcomes>>

\* step 3: fusion and the timestamp; analyze_user_input returns, or the
\* exception of _fuse_analysis reaches the handler
Fuse ==
    /\ pc = "fuse"
    /\ LET fused == fuse_analysis(rule_based, llm_based) IN
         IF fused.raised # "none"
         THEN /\ result' = HandlerError(fused.raised)
              /\ pc' = "done"
              /\ UNCHANGED analysis
         ELSE /\ analysis' = Merge(fused.value, [timestamp |-> now])
              /\ pc' = IF path = "analyze" THEN "respond" ELSE "generate"
              /\ UNCHANGED result
    /\ UNCHANGED <<config, services, now, path, transcript, rule_based, llm_based,
                   response_text, response, outcomes>>

\* generate_response up to the primary request: lazy initialization (outside
\* the try block), the context and the prompt, then the request is made
GenerateStart ==
    /\ pc = "generate"
    /\ IF ~ai_service[Owner].is_initialized /\ ~settings.OPENAI_API_KEY
       THEN /\ result' = HandlerError("ValueError")
            /\ pc' = "done"
            /\ UNCHANGED <<ai_service, requests>>
       ELSE /\ ai_service' = [ai_service EXCEPT ![Owner] =
                                 IF @.is_initialized THEN @ ELSE InitializedAI]
            /\ requests' = [requests EXCEPT !.primary = @ + 1]
            /\ pc' = "primary_wait"
            /\ UNCHANGED result
    /\ UNCHANGED <<config, speech_service, therapy_service, now, path, transcript,
                   rule_based, llm_based, analysis, response_text, response,
                   analyzer_outcome, primary_outcome, review_outcome>>

\* the except clause of generate_response: the fallback response is
\* returned, or the exception raised while building it leaves the function
ExceptFallback ==
    LET fallback == generate_fallback_response(transcript, analysis) IN
    IF fallback.raised # "none"
    THEN /\ result' = HandlerError(fallback.raised)
         /\ pc' = "done"
         /\ UNCHANGED response
    ELSE /\ response' = fallback.value
         /\ pc' = "tts"
         /\ UNCHANGED result

\* fault model for PrimaryReturns: the review step is entered whether or
\* not the primary request produced a text
PrimaryReturns_unchecked ==
    /\ pc = "primary_wait"
    /\ \E outcome \in PrimaryOutcomes :
         /\ primary_outcome' = outcome
         /\ response_text' =
                IF outcome.kind = "error" \/ outcome.content = NoneText
                THEN <<>> ELSE Strip(outcome.content)
         /\ pc' = "review"
         /\ UNCHANGED <<response, result>>
    /\ UNCHANGED <<config, services, now, path, transcript, rule_based, llm_based,
                   analysis, analyzer_outcome, review_outcome, requests>>

\* the primary request comes back: response_text is the stripped content
PrimaryReturns ==
    /\ pc = "primary_wait"
    /\ \E outcome \in PrimaryOutcomes :
         /\ primary_outcome' = outcome
         /\ IF ai_service[Owner].openai_client = "None"
               \/ outcome.kind = "error" \/ outcome.content = NoneText
            THEN /\ ExceptFallback
                 /\ UNCHANGED response_text
            ELSE /\ response_text' = Strip(outcome.content)
                 /\ pc' = "review"
                 /\ UNCHANGED <<response, result>>
    /\ UNCHANGED <<config, services, now, path, transcript, rule_based, llm_based,
                   analysis, analyzer_outcome, review_outcome, requests>>

\* fault model for Review: a failing review request is swallowed and the
\* primary text is returned as if it had been approved
Review_fail_open ==
    /\ pc = "review"
    /\ IF ai_service[Owner].gemini_client = "None"
       THEN /\ ExceptFallback
            /\ UNCHANGED <<review_outcome, requests>>
       ELSE \E outcome \in ReviewOutcomes :
              /\ review_outcome' = outcome
              /\ requests' = [requests EXCEPT !.review = @ + 1]
              /\ response' = GeneratedResponse(
                     FinalResponseText(response_text, SafetyCheck(outcome)),
                     analysis)
              /\ pc' = "tts"
              /\ UNCHANGED result
    /\ UNCHANGED <<config, services, now, path, transcript, rule_based, llm_based,
                   analysis, response_text, analyzer_outcome, primary_outcome>>

\* the review request, the verdict, the tagging and the return
Review ==
    /\ pc = "review"
    /\ IF ai_service[Owner].gemini_client = "None"
       THEN /\ ExceptFallback
            /\ UNCHANGED <<review_outcome, requests>>
       ELSE \E outcome \in ReviewOutcomes :
              /\ review_outcome' = outcome
              /\ requests' = [requests EXCEPT !.review = @ + 1]
              /\ IF outcome.kind = "error"
                 THEN ExceptFallback
                 ELSE /\ response' = GeneratedResponse(
                              FinalResponseText(response_text, SafetyCheck(outcome)),
                              analysis)
                      /\ pc' = "tts"
                      /\ UNCHANGED result
    /\ UNCHANGED <<config, services, now, path, transcript, rule_based, llm_based,
                   analysis, response_text, analyzer_outcome, primary_outcome>>

\* step 4: text_to_speech returns the audio or None, and the handler
\* returns the turn's result
TextToSpeech ==
    /\ pc = "tts"
    /\ \E audio \in {"base64", "None"} :
         result' = [transcript |-> transcript, response |-> response,
                    audio |-> audio, analysis |-> analysis]
    /\ pc' = "done"
    /\ UNCHANGED <<config, services, now, path, transcript, rule_based, llm_based,
                   analysis, response_text, response, outcomes>>

\* the result is sent and the handler is ready for the next turn
FinishTurn ==
    /\ pc = "done"
    /\ pc' = "idle"
    /\ path' = "none"
    /\ transcript' = NoneText
    /\ rule_based' = NoValue
    /\ llm_based' = NoValue
    /\ analysis' = NoValue
    /\ response_text' = NoneText
    /\ response' = NoValue
    /\ result' = NoValue
    /\ analyzer_outcome' = Unset
    /\ primary_outcome' = Unset
    /\ review_outcome' = Unset
    /\ requests' = NoRequests
    /\ UNCHANGED <<config, services, now>>

\* the steps of a turn that both handlers share
TurnStep ==
    \/ SpeechToText
    \/ AnalyzeStart
    \/ AnalyzerReturns
    \/ Fuse
    \/ GenerateStart
    \/ PrimaryReturns
    \/ Review
    \/ TextToSpeech
    \/ FinishTurn

\* the application serving websocket turns (main.py)
Next ==
    \/ Lifespan
    \/ StartWs
    \/ SpeechToText
    \/ AnalyzeStart
    \/ AnalyzerReturns
    \/ Fuse
    \/ GenerateStart
    \/ PrimaryReturns
    \/ Review
    \/ TextToSpeech
    \/ FinishTurn

Spec == Init /\ [][Next]_vars

\* The websocket application under the scheduling of the event loop: a step
\* the service takes by itself (it waits for nothing outside the process) is
\* taken once it can be.  Nothing is assumed of the steps that depend on an
\* external service answering (SpeechToText, AnalyzerReturns, PrimaryReturns,
\* Review, TextToSpeech) or on a client sending (StartWs): the awaits carry
\* no timeout, so a request that is never answered is never resumed.
SpecFair ==
    /\ Init
    /\ [][Next]_vars
    /\ WF_vars(AnalyzeStart)
    /\ WF_vars(Fuse)
    /\ WF_vars(GenerateStart)
    /\ WF_vars(FinishTurn)

\* the application serving process_voice requests (router.py), whose
\* service instances are initialized lazily
NextHttp ==
    \/ Lifespan
    \/ StartHttp
    \/ TurnStep

SpecHttp == Init /\ [][NextHttp]_vars

\* ------------------------------------------- the other session endpoints
\* analyze_input up to the call of analyze_user_input: the session lookup;
\* the HTTPException(404) is raised inside the try block, whose except
\* clause catches it and raises HTTPException(500)
StartAnalyze ==
    /\ app = "running"
    /\ pc = "idle"
    /\ now < MaxTurns
    /\ path' = "analyze"
    /\ now' = now + 1
    /\ \E session_found \in BOOLEAN, t \in Transcripts :
         IF ~session_found
         THEN /\ result' = [status_code |-> 500,
                            detail |-> <<"Analysis failed",
                                         "404: Session not found">>]
              /\ pc' = "done"
              /\ UNCHANGED transcript
         ELSE /\ transcript' = t
              /\ pc' = "analyze"
              /\ UNCHANGED result
    /\ UNCHANGED <<config, services, rule_based, llm_based, analysis,
                   response_text, response, outcomes>>

\* analyze_input after analyze_user_input returned: the AnalysisResponse is
\* built and returned, or the exception raised while building it is
\* turned into HTTPException(500)
AnalysisRespond ==
    /\ pc = "respond"
    /\ LET built == AnalysisResponse("session", analysis) IN
         result' = IF built.raised # "none" THEN HandlerError(built.raised)
                   ELSE built.value
    /\ pc' = "done"
    /\ UNCHANGED <<config, services, now, path, transcript, rule_based, llm_based,
                   analysis, response_text, response, outcomes>>

\* get_conversation: the session lookup and the history
GetConversation ==
    /\ app = "running"
    /\ pc = "idle"
    /\ now < MaxTurns
    /\ path' = "get"
    /\ now' = now + 1
    /\ \E session_found \in BOOLEAN :
         result' = IF ~session_found
                   THEN [status_code |-> 500,
                         detail |-> <<"Failed to retrieve conversation",
                                      "404: Session not found">>]
                   ELSE [session |-> "session", turns |-> <<>>]
    /\ pc' = "done"
    /\ UNCHANGED <<config, services, transcript, rule_based, llm_based, analysis,
                   response_text, response, outcomes>>

\* end_conversation: the session lookup and the commit
EndConversation ==
    /\ app = "running"
    /\ pc = "idle"
    /\ now < MaxTurns
    /\ path' = "end"
    /\ now' = now + 1
    /\ \E session_found \in BOOLEAN :
         result' = IF ~session_found
                   THEN [status_code |-> 500,
                         detail |-> <<"Failed to end conversation",
                                      "404: Session not found">>]
                   ELSE [message |-> "Conversation ended successfully"]
    /\ pc' = "done"
    /\ UNCHANGED <<config, services, transcript, rule_based, llm_based, analysis,
                   response_text, response, outcomes>>

\* the application serving the session endpoints of router.py one request
\* at a time
NextApi ==
    \/ Lifespan
    \/ StartAnalyze
    \/ AnalysisRespond
    \/ GetConversation
    \/ EndConversation
    \/ StartHttp
    \/ TurnStep

SpecApi == Init /\ [][NextApi]_vars

\* ------------------------------------------------ the rule-based scan alone
\* _rule_based_analysis applied to transcripts over a larger vocabulary, in
\* which two patterns of one category can occur together: the turn of the
\* websocket handler from the point where speech_to_text has returned.
ScanSymbols == TranscriptSymbols \cup {"la_amal", "udhi_nafsi"}

ScanTranscripts == SeqsUpTo(ScanSymbols, MaxTranscriptLen) \ {<<>>}

InitScan ==
    /\ settings \in [OPENAI_API_KEY : {TRUE}, GOOGLE_API_KEY : BOOLEAN]
    /\ crisis_patterns \in PatternTables
    /\ app = "running"
    /\ speech_service = [o \in Owners |->
           IF o = "main" THEN InitializedClient
           ELSE [is_initialized |-> FALSE, client |-> "None"]]
    /\ therapy_service = [o \in Owners |->
           IF o = "main" THEN InitializedClient
           ELSE [is_initialized |-> FALSE, client |-> "None"]]
    /\ ai_service = [o \in Owners |->
           IF o = "main" THEN InitializedAI
           ELSE [is_initialized |-> FALSE, openai_client |-> "None",
                 gemini_client |-> "None"]]
    /\ now = 1
    /\ path = "ws"
    /\ pc = "analyze"
    /\ transcript \in ScanTranscripts
    /\ rule_based = NoValue
    /\ llm_based = NoValue
    /\ analysis = NoValue
    /\ response_text = NoneText
    /\ response = NoValue
    /\ result = NoValue
    /\ analyzer_outcome = Unset
    /\ primary_outcome = Unset
    /\ review_outcome = Unset
    /\ requests = NoRequests
    /\ http = [r \in HttpRequests |-> IdleRequest]
    /\ InitConnections

NextScan == AnalyzeStart

SpecScan == InitScan /\ [][NextScan]_vars

\* ------------------------------------- process_voice requests side by side
\* Each request to POST /conversations/{session_id}/process_voice runs the
\* coroutine process_voice; the event loop switches between the coroutines
\* at their awaits.  Only the position of each coroutine is followed here
\* (what the steps compute is the turn of SpecHttp).

\* a request for an existing session arrives and runs up to the first await
\* (speech_to_text)
ProcessVoiceReceived(r, s) ==
    /\ app = "running"
    /\ http[r].pc = "idle"
    /\ http' = [http EXCEPT ![r] = [pc |-> "stt", session_id |-> s]]
    /\ UNCHANGED <<settings, crisis_patterns, app, connections, services, now,
                   path, pc, locals, outcomes>>

\* the awaited call returns and the coroutine runs up to its next await:
\* analyze_user_input, generate_response, text_to_speech, then the return
AfterAwait ==
    [stt |-> "analyze", analyze |-> "generate", generate |-> "tts", tts |-> "done"]

ProcessVoiceResumed(r) ==
    /\ http[r].pc \in DOMAIN AfterAwait
    /\ http' = [http EXCEPT ![r].pc = AfterAwait[@]]
    /\ UNCHANGED <<settings, crisis_patterns, app, connections, services, now,
                   path, pc, locals, outcomes>>

\* the response is sent
ProcessVoiceAnswered(r) ==
    /\ http[r].pc = "done"
    /\ http' = [http EXCEPT ![r] = IdleRequest]
    /\ UNCHANGED <<settings, crisis_patterns, app, connections, services, now,
                   path, pc, locals, outcomes>>

NextRequests ==
    \/ Lifespan
    \/ \E r \in HttpRequests, s \in Sessions : ProcessVoiceReceived(r, s)
    \/ \E r \in HttpRequests : ProcessVoiceResumed(r)
    \/ \E r \in HttpRequests : ProcessVoiceAnswered(r)

SpecRequests == Init /\ [][NextRequests]_vars

\* ------------------------------------------------------- ConnectionManager
\* Dicts are functions whose domain is the key set.  Of the session metadata
\* only created_at and last_activity are kept: the other fields are set at
\* connect and no handler changes them.
MaxClock == 4

\* cleanup_inactive_sessions(timeout_minutes=30), in clock units
timeout_minutes == 3

\* the values of uuid4() in the order they are drawn (all different)
UuidNames == <<"u1", "u2", "u3">>

Put(d, k, v) == [x \in DOMAIN d \cup {k} |-> IF x = k THEN v ELSE d[x]]
Del(d, k) == [x \in DOMAIN d \ {k} |-> d[x]]

\* list.remove(x): the first occurrence
RECURSIVE ListRemove(_, _)
ListRemove(list, x) ==
    IF list = <<>> THEN <<>>
    ELSE IF Head(list) = x THEN Tail(list)
    ELSE <<Head(list)>> \o ListRemove(Tail(list), x)

\* ConnectionManager.connect after websocket.accept() has returned
connect(m, w, session_id, utcnow) ==
    [active_connections  |-> Append(m.active_connections, w),
     session_connections |-> Put(m.session_connections, session_id, w),
     connection_sessions |-> Put(m.connection_sessions, w, session_id),
     session_metadata    |-> Put(m.session_metadata, session_id,
                                 [created_at |-> utcnow, last_activity |-> utcnow])]

\* fault model for disconnect: the session's metadata is left behind
disconnect_keeping_metadata(m, w) ==
    LET session_id == Get(m.connection_sessions, w, "None")
    IN  IF session_id = "None"
        THEN [manager |-> [m EXCEPT !.active_connections = ListRemove(@, w)],
              raised |-> FALSE]
        ELSE [manager |->
                 [active_connections  |-> ListRemove(m.active_connections, w),
                  session_connections |-> Del(m.session_connections, session_id),
                  connection_sessions |-> Del(m.connection_sessions, w),
                  session_metadata    |-> m.session_metadata],
              raised |-> FALSE]

\* ConnectionManager.disconnect: the manager it leaves and whether it raised
\* (del of a missing key raises KeyError, after the list was changed)
disconnect(m, w) ==
    LET active == IF InList(w, m.active_connections)
                  THEN ListRemove(m.active_connections, w)
                  ELSE m.active_connections
        session_id == Get(m.connection_sessions, w, "None")
        m1 == [m EXCEPT !.active_connections = active]
    IN  IF session_id = "None" THEN [manager |-> m1, raised |-> FALSE]
        ELSE IF session_id \notin DOMAIN m.session_connections
        THEN [manager |-> m1, raised |-> TRUE]
        ELSE [manager |->
                 [active_connections  |-> active,
                  session_connections |-> Del(m.session_connections, session_id),
                  connection_sessions |-> Del(m.connection_sessions, w),
                  session_metadata    |-> Del(m.session_metadata, session_id)],
              raised |-> FALSE]

\* ConnectionManager.get_session_id
get_session_id(m, w) == Get(m.connection_sessions, w, "None")

\* ConnectionManager.send_personal_message: sent tells whether send_text
\* returned; any exception of the try block ends in disconnect
send_personal_message(m, w, sent, utcnow) ==
    LET session_id == get_session_id(m, w)
    IN  IF sent /\ session_id = "None" THEN [manager |-> m, raised |-> FALSE]
        ELSE IF sent /\ session_id \in DOMAIN m.session_metadata
        THEN [manager |-> [m EXCEPT !.session_metadata[session_id].last_activity
                                        = utcnow],
              raised |-> FALSE]
        ELSE disconnect(m, w)

\* ConnectionManager.cleanup_inactive_sessions: the sessions found inactive,
\* then disconnect for the websocket of each (the calls touch different keys,
\* so the order of the second loop does not show)
inactive_sessions(m, utcnow) ==
    {s \in DOMAIN m.session_metadata :
        m.session_metadata[s].last_activity < utcnow - timeout_minutes}

RECURSIVE DisconnectSessions(_, _)
DisconnectSessions(m, sessions) ==
    IF sessions = {} THEN [manager |-> m, raised |-> FALSE]
    ELSE LET s == CHOOSE x \in sessions : TRUE
             w == Get(m.session_connections, s, "None")
             r == IF w = "None" THEN [manager |-> m, raised |-> FALSE]
                  ELSE disconnect(m, w)
         IN  IF r.raised THEN r
             ELSE DisconnectSessions(r.manager, sessions \ {s})

cleanup_inactive_sessions(m, utcnow) ==
    DisconnectSessions(m, inactive_sessions(m, utcnow))

\* what the manager steps leave alone
pipeline == <<settings, crisis_patterns, app, http, services, now, path, pc,
              locals, outcomes>>

\* time passes
Tick ==
    /\ clock < MaxClock
    /\ clock' = clock + 1
    /\ UNCHANGED <<pipeline, manager, uuids, socket, broadcasting>>

\* the peer closes its end of the connection
PeerCloses(w) ==
    /\ socket[w].state = "open"
    /\ socket' = [socket EXCEPT ![w].state = "closed"]
    /\ UNCHANGED <<pipeline, manager, clock, uuids, broadcasting>>

\* websocket_endpoint: a websocket is connected once; the endpoint then waits
\* in receive_bytes
Connect(w) ==
    /\ socket[w].state = "new"
    /\ uuids < Len(UuidNames)
    /\ uuids' = uuids + 1
    /\ manager' = connect(manager, w, UuidNames[uuids + 1], clock)
    /\ socket' = [socket EXCEPT ![w] =
           [state |-> "open", pc |-> "receive",
            session_id |-> UuidNames[uuids + 1], passed |-> "unset"]]
    /\ UNCHANGED <<pipeline, clock, broadcasting>>

\* calls of the manager's methods in any order, for any websocket
Disconnect(w) ==
    /\ manager' = disconnect(manager, w).manager
    /\ UNCHANGED <<pipeline, clock, uuids, socket, broadcasting>>

\* send_text returns on an open connection and raises on any other
SendPersonalMessage(w) ==
    /\ manager' = send_personal_message(manager, w, socket[w].state = "open",
                                        clock).manager
    /\ UNCHANGED <<pipeline, clock, uuids, socket, broadcasting>>

\* broadcast copies the list, then sends to one connection per await
BroadcastStart ==
    /\ broadcasting = <<>>
    /\ manager.active_connections # <<>>
    /\ broadcasting' = manager.active_connections
    /\ UNCHANGED <<pipeline, manager, clock, uuids, socket>>

BroadcastStep ==
    /\ broadcasting # <<>>
    /\ manager' = IF socket[Head(broadcasting)].state = "open" THEN manager
                  ELSE disconnect(manager, Head(broadcasting)).manager
    /\ broadcasting' = Tail(broadcasting)
    /\ UNCHANGED <<pipeline, clock, uuids, socket>>

CleanupInactiveSessions ==
    /\ manager' = cleanup_inactive_sessions(manager, clock).manager
    /\ UNCHANGED <<pipeline, clock, uuids, socket, broadcasting>>

NextManager ==
    \/ Tick
    \/ \E w \in WebSockets : PeerCloses(w)
    \/ \E w \in WebSockets : Connect(w)
    \/ \E w \in WebSockets : Disconnect(w)
    \/ \E w \in WebSockets : SendPersonalMessage(w)
    \/ BroadcastStart
    \/ BroadcastStep
    \/ CleanupInactiveSessions

SpecManager == Init /\ [][NextManager]_vars

\* -------------------------------------------- websocket_endpoint and cleanup
\* The endpoint of each websocket: connect, then the loop receive_bytes,
\* process_voice_conversation, send_personal_message, until receive_bytes
\* raises WebSocketDisconnect.  Of a turn only the session id it passes to
\* generate_response is followed (what the turn computes is the turn of Spec).
WsConnect(w) ==
    /\ app = "running"
    /\ Connect(w)

\* receive_bytes returns the audio of the next turn
WsReceive(w) ==
    /\ socket[w].pc = "receive"
    /\ socket[w].state = "open"
    /\ socket' = [socket EXCEPT ![w].pc = "turn"]
    /\ UNCHANGED <<pipeline, manager, clock, uuids, broadcasting>>

\* process_voice_conversation: the turn reaches generate_response, which is
\* passed get_session_id(websocket), or it returns an error dict before
WsTurn(w, reaches) ==
    /\ socket[w].pc = "turn"
    /\ socket' = [socket EXCEPT
           ![w].pc = "send",
           ![w].passed = IF reaches THEN get_session_id(manager, w) ELSE @]
    /\ UNCHANGED <<pipeline, manager, clock, uuids, broadcasting>>

\* send_personal_message(result, websocket), then back to receive_bytes
WsSend(w) ==
    /\ socket[w].pc = "send"
    /\ manager' = send_personal_message(manager, w, socket[w].state = "open",
                                        clock).manager
    /\ socket' = [socket EXCEPT ![w].pc = "receive"]
    /\ UNCHANGED <<pipeline, clock, uuids, broadcasting>>

\* receive_bytes raises WebSocketDisconnect: the endpoint calls disconnect
\* and returns
WsDisconnect(w) ==
    /\ socket[w].pc = "receive"
    /\ socket[w].state = "closed"
    /\ manager' = disconnect(manager, w).manager
    /\ socket' = [socket EXCEPT ![w].pc = "ended"]
    /\ UNCHANGED <<pipeline, clock, uuids, broadcasting>>

\* start_cleanup_task: the loop started by lifespan wakes up
CleanupLoop ==
    /\ app = "running"
    /\ CleanupInactiveSessions

NextEndpoint ==
    \/ Lifespan
    \/ Tick
    \/ \E w \in WebSockets : PeerCloses(w)
    \/ \E w \in WebSockets : WsConnect(w)
    \/ \E w \in WebSockets : WsReceive(w)
    \/ \E w \in WebSockets, reaches \in BOOLEAN : WsTurn(w, reaches)
    \/ \E w \in WebSockets : WsSend(w)
    \/ \E w \in WebSockets : WsDisconnect(w)
    \/ CleanupLoop

SpecEndpoint == Init /\ [][NextEndpoint]_vars

\* ===================================================================
\* Properties
\* ===================================================================
\* the rule-based risk level of the running turn (after step 1)
RuleLevel == rule_based.crisis_assessment.risk_level

\* analyze_user_input has returned the fused analysis in this turn
Fused == analysis # NoValue

\* the analyzer call of this turn failed: the request raised or its output
\* was not parseable as a JSON object
AnalyzerFailed ==
    analyzer_outcome.kind \in {"error", "no_content", "not_json", "json_non_object"}

\* severities ordered low < medium < high < critical; labels outside the
\* four severities are not comparable
Severity == [low |-> 0, medium |-> 1, high |-> 2, critical |-> 3]
LessSevere(a, b) ==
    /\ a \in DOMAIN Severity
    /\ b \in DOMAIN Severity
    /\ Severity[a] < Severity[b]

\* C1: whenever the rule-based risk level is high or critical, fusion
\* returns, whatever the analyzer answered, and the fused crisis_assessment
\* is exactly the rule-based one and is_crisis is true.
C1_SafetyFirstOverride ==
    (/\ rule_based # NoValue
     /\ llm_based # NoValue
     /\ pc # "fuse"
     /\ RuleLevel \in {"high", "critical"})
    => /\ Fused
       /\ analysis.crisis_assessment = rule_based.crisis_assessment
       /\ analysis.is_crisis = TRUE

\* C1 witness: a critical rule-based level fused with an analyzer answer
\* that reports low and carries its own is_crisis = false
C1_Witness ==
    /\ Fused
    /\ RuleLevel = "critical"
    /\ analyzer_outcome.kind = "json_object"
    /\ "is_crisis" \in DOMAIN analyzer_outcome.payload
    /\ "crisis_assessment" \in DOMAIN analyzer_outcome.payload
    /\ analyzer_outcome.payload.crisis_assessment = LowCrisis
    /\ analysis.is_crisis

\* C2 as stated: for every rule-based level, medium included, the fused
\* risk level is never less severe than the rule-based one.
C2_NeverLessSevere ==
    Fused => ~LessSevere(analysis.crisis_assessment.risk_level, RuleLevel)

\* C2 amended: for every rule-based level other than medium (low, high,
\* critical) the fused risk level is never less severe than the rule-based
\* one; a rule-based medium is replaced by the analyzer's level.
C2_NeverLessSevereUnlessMedium ==
    (Fused /\ RuleLevel # "medium")
    => ~LessSevere(analysis.crisis_assessment.risk_level, RuleLevel)

\* C2 witness: a high rule-based level survives an analyzer reporting low
C2_Witness ==
    /\ Fused
    /\ RuleLevel = "high"
    /\ AnalyzerFailed
    /\ llm_based.crisis_assessment.risk_level = "low"
    /\ analysis.crisis_assessment.risk_level = "high"

\* the transcript contains a configured suicide_ideation pattern
HasSuicidePattern(text) ==
    \E i \in 1..Len(crisis_patterns) :
        /\ crisis_patterns[i].risk_type = "suicide_ideation"
        /\ \E j \in 1..Len(crisis_patterns[i].patterns) :
               Contains(text, crisis_patterns[i].patterns[j])

\* C3: for a transcript containing a suicide_ideation pattern the
\* rule-based result is critical with escalation_required, before the
\* analyzer answers and after it has answered, whatever it answered.
C3_SuicidePatternCritical ==
    (rule_based # NoValue /\ HasSuicidePattern(transcript))
    => /\ RuleLevel = "critical"
       /\ rule_based.crisis_assessment.escalation_required = TRUE

\* C3 witness: such a transcript, with an analyzer that answered low
C3_Witness ==
    /\ rule_based # NoValue
    /\ HasSuicidePattern(transcript)
    /\ analyzer_outcome.kind = "json_object"
    /\ "crisis_assessment" \in DOMAIN llm_based
    /\ llm_based.crisis_assessment = LowCrisis
    /\ RuleLevel = "critical"

\* the turn of process_voice_conversation is over, and its transcript was
\* available
WsTurnDone ==
    /\ pc = "done"
    /\ path = "ws"
    /\ transcript # NoneText
    /\ transcript # <<>>

\* the three external model calls of the turn all failed
AllCallsFailed ==
    /\ AnalyzerFailed
    /\ primary_outcome.kind = "error"

\* C4: a turn with an available transcript returns a result (not an error)
\* holding a response and an analysis with a crisis_assessment, for every
\* outcome of the three model calls; when the analyzer failed or the
\* rule-based level is high or critical the crisis_assessment has the
\* rule-based risk level; when all calls fail the response is the fallback.
C4_TurnBackstop ==
    WsTurnDone
    => /\ "error" \notin DOMAIN result
       /\ "response" \in DOMAIN result
       /\ "analysis" \in DOMAIN result
       /\ "crisis_assessment" \in DOMAIN result.analysis
       /\ (AnalyzerFailed \/ RuleLevel \in {"high", "critical"})
              => result.analysis.crisis_assessment.risk_level = RuleLevel
       /\ AllCallsFailed => result.response.model_used = "fallback"

\* an exception of analyze_user_input or generate_response reached the
\* handler (the exceptions the handlers raise themselves carry a status)
ExceptionsOfTheCore == {"KeyError", "TypeError", "ValueError"}
CoreRaised ==
    /\ pc = "done"
    /\ \/ /\ "error" \in DOMAIN result
          /\ Len(result.error) = 2
          /\ result.error[2] \in ExceptionsOfTheCore
       \/ /\ "detail" \in DOMAIN result
          /\ result.detail[2] \in ExceptionsOfTheCore

\* C5: no call to analyze_user_input or generate_response raises to its
\* caller, for any outcome of the external model calls.
C5_CoreNeverRaises == ~CoreRaised

\* the dict of the analyzer's except branch, written out
FixedDefault ==
    [source            |-> "llm",
     emotional_state   |-> "neutral",
     intent            |-> "general_conversation",
     crisis_assessment |-> [risk_level            |-> "low",
                            requires_intervention |-> FALSE,
                            escalation_required   |-> FALSE],
     confidence        |-> 0]

\* C6: when the analyzer request raises or its output is not parseable as a
\* JSON object, _llm_based_analysis returns exactly the fixed default.
C6_AnalyzerDefaultOnFailure ==
    (llm_based # NoValue /\ AnalyzerFailed)
    => /\ DOMAIN llm_based = {"source", "emotional_state", "intent",
                              "crisis_assessment", "confidence"}
       /\ llm_based.source = "llm"
       /\ llm_based.emotional_state = "neutral"
       /\ llm_based.intent = "general_conversation"
       /\ llm_based.crisis_assessment =
              [risk_level |-> "low", requires_intervention |-> FALSE,
               escalation_required |-> FALSE]
       /\ llm_based.confidence = 0

\* C6 witness: one turn for output that is JSON but no object, after which
\* fusion went on with the default
C6_Witness ==
    /\ analyzer_outcome.kind = "json_non_object"
    /\ llm_based = FixedDefault
    /\ Fused

\* the analyzer's JSON object violates the schema: a required key is
\* missing or risk_level is not one of the four levels
RiskLevels == {"low", "medium", "high", "critical"}
ViolatesSchema(payload) ==
    \/ {"emotional_state", "crisis_assessment", "cultural_context"}
           \ DOMAIN payload # {}
    \/ ~IsObject(payload.crisis_assessment)
    \/ "risk_level" \notin DOMAIN payload.crisis_assessment
    \/ payload.crisis_assessment.risk_level \notin RiskLevels

\* C7: an analyzer output that parses as JSON but violates the schema gives
\* the fixed default, so that every LLMAssessment and every FusedAnalysis
\* has a risk_level among low, medium, high, critical.
C7_SchemaValidated ==
    /\ (/\ llm_based # NoValue
        /\ analyzer_outcome.kind = "json_object"
        /\ ViolatesSchema(analyzer_outcome.payload))
       => llm_based = FixedDefault
    /\ Fused => analysis.crisis_assessment.risk_level \in RiskLevels

\* generate_response has returned in this turn
Responded == response # NoValue

\* the primary request raised
PrimaryFailed == primary_outcome.kind = "error"

\* the review step was reached and its request raised (no review outcome is
\* recorded when the review client is missing and the attribute access
\* raises before any request is made)
ReviewFailed ==
    /\ response_text # NoneText
    /\ pc \in {"tts", "done"}
    /\ review_outcome.kind \in {"error", "unset"}

Symbols(text) == {text[i] : i \in 1..Len(text)}

\* the catalog reply for the emotional_state of the fused analysis
CatalogReply ==
    IF "emotional_state" \in DOMAIN analysis
       /\ analysis.emotional_state \in {"crisis", "anxiety", "sadness", "general"}
    THEN FallbackCatalog[analysis.emotional_state]
    ELSE FallbackCatalog["general"]

\* C8: if the primary request or the review request raises, the value
\* generate_response returns is exactly the fallback result for the
\* analysis's emotional_state, and holds nothing of the primary text.
C8_FailClosed ==
    (Responded /\ (PrimaryFailed \/ ReviewFailed))
    => /\ response =
              [text                   |-> CatalogReply,
               model_used             |-> "fallback",
               confidence             |-> 50,
               cultural_adaptations   |-> <<"emergency_fallback">>,
               therapeutic_techniques |-> <<"active_listening">>,
               safety_assessment      |-> [risk_level |-> "low",
                                           intervention_required |-> FALSE]]
       /\ Symbols(response.text) \cap Symbols(response_text) = {}

\* C8 witness: the review request raised after a primary reply, and the
\* sadness entry of the catalog was returned
C8_Witness ==
    /\ Responded
    /\ review_outcome.kind = "error"
    /\ response_text = <<"marhaba">>
    /\ response.model_used = "fallback"
    /\ response.text = FallbackCatalog["sadness"]

\* the primary model returned no content, or empty or whitespace-only text
PrimaryEmpty ==
    /\ primary_outcome.kind = "ok"
    /\ \/ primary_outcome.content = NoneText
       \/ Strip(primary_outcome.content) = <<>>

\* C9: when the primary model returns empty or invalid output,
\* generate_response returns the fallback result, and the returned text is
\* never empty.
C9_EmptyPrimaryFallsBack ==
    /\ (Responded /\ PrimaryEmpty) => response.model_used = "fallback"
    /\ Responded => response.text # <<>>

\* the review model answered with text and generate_response returned
Reviewed == Responded /\ review_outcome.kind = "ok"

\* C10 as stated: if the reviewer's raw output begins, case-insensitively,
\* with APPROVED the final text is the primary text, otherwise it is the
\* reviewer's raw output verbatim.
C10_VerdictOnRawOutput ==
    Reviewed
    => response.text =
           IF StartsWith(Upper(review_outcome.text), APPROVED)
           THEN response_text
           ELSE review_outcome.text

\* C10 amended: if the reviewer's output, with leading and trailing
\* whitespace removed, begins case-insensitively with APPROVED, the final
\* text is the (whitespace-trimmed) primary text; otherwise the final text
\* is the whole of the reviewer's whitespace-trimmed output; it is never a
\* mixture of the two.
C10_VerdictOnTrimmedOutput ==
    Reviewed
    => /\ response.text =
              IF StartsWith(Upper(Strip(review_outcome.text)), APPROVED)
              THEN response_text
              ELSE Strip(review_outcome.text)
       /\ response_text = Strip(primary_outcome.content)

\* C10 witness: a lower-case approval keeps the primary text
C10_Witness ==
    /\ Reviewed
    /\ review_outcome.text = <<"a", "p", "p", "r", "o", "v", "e", "d", ".">>
    /\ primary_outcome.content = <<" ", "allah", "maak", "\n">>
    /\ response.text = <<"allah", "maak">>

\* the except clause of generate_response ran in this turn: the primary
\* request raised, its message had no content, or the review step raised
FallbackInvoked ==
    /\ Fused
    /\ pc \in {"tts", "done"}
    /\ \/ PrimaryFailed
       \/ primary_outcome.kind = "ok" /\ primary_outcome.content = NoneText
       \/ ReviewFailed

\* C11: whenever the fallback responder is invoked it returns (it never
\* fails), and what it returns is the catalog entry for the analysis's
\* emotional_state (the general entry for a label outside the catalog) with
\* model_used fallback, confidence 0.5, cultural_adaptations
\* [emergency_fallback], therapeutic_techniques [active_listening] and
\* safety_assessment {risk_level low, intervention_required false}.
C11_FallbackTotal ==
    FallbackInvoked
    => /\ Responded
       /\ response.text = CatalogReply
       /\ response.model_used = "fallback"
       /\ response.confidence = 50
       /\ response.cultural_adaptations = <<"emergency_fallback">>
       /\ response.therapeutic_techniques = <<"active_listening">>
       /\ response.safety_assessment =
              [risk_level |-> "low", intervention_required |-> FALSE]

\* C12: every pipeline invocation eventually returns, also when an external
\* model call never responds: once analyze_user_input has been called the
\* turn reaches the point where generate_response has returned (or the
\* handler has), because a call that is not answered in bounded time is cut
\* off and resolved to the default or the fallback.
C12_PipelineReturns == (pc = "analyze") ~> (pc \in {"tts", "done"})

\* _rule_based_analysis has just returned
Scanned == pc = "llm_wait"

\* the categories of the configured table of which at least one pattern
\* occurs in the text (case-insensitively)
HitCategories(text) ==
    { crisis_patterns[i].risk_type :
          i \in { k \in 1..Len(crisis_patterns) :
                     \E j \in 1..Len(crisis_patterns[k].patterns) :
                         re_search(crisis_patterns[k].patterns[j], text) } }

\* C13: the risk level the rule-based scan returns follows a strict
\* priority: critical if a
\* suicide_ideation or self_harm pattern was hit; otherwise high if a
\* hopelessness pattern was hit; otherwise medium if a pattern of any other
\* configured category was hit; otherwise low.
C13_StrictPriority ==
    Scanned
    => LET hit == HitCategories(transcript) IN
       /\ hit \cap {"suicide_ideation", "self_harm"} # {}
              => RuleLevel = "critical"
       /\ (hit \cap {"suicide_ideation", "self_harm"} = {}
              /\ "hopelessness" \in hit)
              => RuleLevel = "high"
       /\ (hit \cap {"suicide_ideation", "self_harm", "hopelessness"} = {}
              /\ hit # {})
              => RuleLevel = "medium"
       /\ hit = {} => RuleLevel = "low"

\* C13 witness: a transcript that hits hopelessness and suicide_ideation
\* at once is critical
C13_Witness ==
    /\ Scanned
    /\ {"hopelessness", "suicide_ideation"} \subseteq HitCategories(transcript)
    /\ RuleLevel = "critical"

\* C14: of what the rule-based scan returns: if no pattern matched, the
\* rule-based result has risk level low and
\* confidence 0.3; if at least one indicator was found, its confidence is
\* 0.6, whatever the resulting risk level.
C14_RuleConfidence ==
    Scanned
    => LET hit == HitCategories(transcript) IN
       /\ hit = {}
              => /\ RuleLevel = "low"
                 /\ rule_based.confidence = 30
                 /\ rule_based.crisis_assessment.indicators = <<>>
       /\ hit # {}
              => /\ rule_based.confidence = 60
                 /\ rule_based.crisis_assessment.indicators # <<>>

\* C14 witness: a medium rule-based level (a hit in the added category
\* only) carries confidence 0.6
C14_Witness ==
    /\ Scanned
    /\ HitCategories(transcript) = {"isolation"}
    /\ RuleLevel = "medium"
    /\ rule_based.confidence = 60

\* C15: when the rule-based level is not high or critical, the fused
\* crisis_assessment is the analyzer result's and is_crisis is true exactly
\* when the analyzer result's risk level is high or critical (false for
\* every other level and for the failure default).
C15_AnalyzerDecidesWithoutAlarm ==
    (Fused /\ RuleLevel \notin {"high", "critical"})
    => /\ analysis.crisis_assessment = llm_based.crisis_assessment
       /\ analysis.is_crisis
              = (llm_based.crisis_assessment.risk_level \in {"high", "critical"})
       /\ AnalyzerFailed => ~analysis.is_crisis

\* C15 witness: no rule-based alarm, the analyzer reports critical next to
\* an is_crisis = false of its own, and the fused analysis is a crisis
C15_Witness ==
    /\ Fused
    /\ RuleLevel \in {"low", "medium"}
    /\ analyzer_outcome.kind = "json_object"
    /\ "is_crisis" \in DOMAIN analyzer_outcome.payload
    /\ analyzer_outcome.payload.is_crisis = FALSE
    /\ analysis.crisis_assessment.risk_level = "critical"
    /\ analysis.is_crisis = TRUE

\* C16: every analyzer call that succeeds returns confidence 0.8, whatever
\* the JSON object holds (a confidence key of its own included); the
\* confidence is 0.0 only on the failure default.
C16_AnalyzerConfidence ==
    llm_based # NoValue
    => /\ ~AnalyzerFailed => llm_based.confidence = 80
       /\ llm_based.confidence = 0
              => (AnalyzerFailed /\ llm_based = FixedDefault)

\* C16 witness: the model's JSON carries confidence 0.3 and the analyzer
\* result has 0.8
C16_Witness ==
    /\ llm_based # NoValue
    /\ analyzer_outcome.kind = "json_object"
    /\ "confidence" \in DOMAIN analyzer_outcome.payload
    /\ analyzer_outcome.payload.confidence = 30
    /\ llm_based.confidence = 80

\* the try block of generate_response returned (not the fallback)
Tagged == Responded /\ response.model_used = model_used_pair

\* generate_response has just returned to the handler
Generated == pc = "tts"

\* the vocabulary of each marker category, as symbols
MarkerVocabulary ==
    [religious_sensitivity   |-> {"allah"},
     family_context          |-> {"aila", "walidayn", "ikhwan", "akhawat"},
     social_norms            |-> {"mujtama", "adat", "taqalid"},
     therapeutic_terminology |-> {"ilaj", "nafsi", "istishara", "daam"}]

\* the marker categories of which a word occurs in the text
MarkedCategories(text) ==
    { c \in DOMAIN MarkerVocabulary : MarkerVocabulary[c] \cap Symbols(text) # {} }

\* C17: tagging is additive and idempotent: the text returned after tagging
\* is the final text the safety review chose; the tag list holds exactly
\* one tag for each marker category whose vocabulary occurs in that text
\* and no other tag; and tagging the tagged response again gives the same
\* tags and the same text.
C17_TaggerAdditiveIdempotent ==
    (Generated /\ Tagged)
    => LET tags  == response.cultural_adaptations
           once  == apply_cultural_adaptations(
                        [text |-> response.text, confidence |-> 85], analysis)
           twice == apply_cultural_adaptations(once, analysis)
       IN  /\ response.text
                  = FinalResponseText(response_text, SafetyCheck(review_outcome))
           /\ {tags[i] : i \in 1..Len(tags)} = MarkedCategories(response.text)
           /\ Len(tags) = Cardinality(MarkedCategories(response.text))
           /\ once.adaptations = tags
           /\ twice.adaptations = tags
           /\ twice.text = response.text

\* C17 witness: the reviewer's replacement text holds two words of one
\* category and is returned unchanged with one tag
C17_Witness ==
    /\ Generated
    /\ Tagged
    /\ review_outcome.kind = "ok"
    /\ review_outcome.text = <<"ilaj", "nafsi">>
    /\ response.text = <<"ilaj", "nafsi">>
    /\ response.cultural_adaptations = <<"therapeutic_terminology">>

\* C18: the stages of a turn run in order: fusion happens only after the
\* rule-based scan and the analyzer call have both completed; the primary
\* request is made only after fusion; the review request is made only
\* after the primary request returned a text (never after it failed); and
\* the response is tagged only after the review verdict was applied.
C18_StageOrder ==
    /\ Fused => /\ rule_based # NoValue
                /\ llm_based # NoValue
                /\ analyzer_outcome # Unset
    /\ (requests.primary > 0 \/ primary_outcome # Unset) => Fused
    /\ (requests.review > 0 \/ review_outcome # Unset)
           => /\ primary_outcome.kind = "ok"
              /\ primary_outcome.content # NoneText
              /\ response_text = Strip(primary_outcome.content)
    /\ Tagged
           => /\ review_outcome.kind \in {"ok", "none"}
              /\ response.text
                     = FinalResponseText(response_text, SafetyCheck(review_outcome))

\* C18 witness: a turn that went through all the stages, the reviewer
\* replacing the primary text, up to the tagged response
C18_Witness ==
    /\ Tagged
    /\ requests = [analyzer |-> 1, primary |-> 1, review |-> 1]
    /\ primary_outcome.content = <<"marhaba">>
    /\ review_outcome.text = <<" ", "mujtama", "\n">>
    /\ response.cultural_adaptations = <<"social_norms">>

\* C19: there are no retries: within one turn each external model is
\* requested at most once, the answer recorded for a model is the answer
\* to that single request, and this stays so after a request has failed.
C19_NoRetries ==
    /\ \A m \in DOMAIN requests : requests[m] <= 1
    /\ analyzer_outcome # Unset => requests.analyzer = 1
    /\ primary_outcome # Unset => requests.primary = 1
    /\ review_outcome # Unset => requests.review = 1

\* C19 witness: the analyzer request and the review request both raised,
\* and the turn ended with one request to each model
C19_Witness ==
    /\ pc = "done"
    /\ analyzer_outcome.kind = "error"
    /\ review_outcome.kind = "error"
    /\ requests = [analyzer |-> 1, primary |-> 1, review |-> 1]

\* a dict without its timestamp key
WithoutTimestamp(d) == [k \in DOMAIN d \ {"timestamp"} |-> d[k]]

\* the fused analysis as a function of the configured table, the transcript
\* and the analyzer's answer
TurnAnalysis(table, text, analyzer) ==
    fuse_analysis(rule_based_analysis(table, text),
                  llm_based_analysis("client", analyzer))

\* the response as a function of the configured review key, the transcript,
\* the fused analysis and the answers of the primary and the review model
TurnResponse(google_key, text, fused, primary, review) ==
    IF \/ primary.kind = "error"
       \/ primary.content = NoneText
       \/ ~google_key
       \/ review.kind = "error"
    THEN generate_fallback_response(text, fused)
    ELSE Returned(GeneratedResponse(
             FinalResponseText(Strip(primary.content), SafetyCheck(review)),
             fused))

\* C20: the pipeline is deterministic: the fused analysis (its timestamp
\* apart) and the response that generate_response hands back to the turn's
\* handler are the values of one function
\* of the transcript, the configuration and the answers of the three
\* external models, so that two turns agreeing on these return the same
\* analysis and response, whichever turns came before and whether or not
\* the services were initialized when the turn started.
C20_Deterministic ==
    Generated
    => LET fused == TurnAnalysis(crisis_patterns, transcript, analyzer_outcome)
       IN  /\ fused.raised = "none"
           /\ WithoutTimestamp(analysis) = fused.value
           /\ response
                  = TurnResponse(settings.GOOGLE_API_KEY, transcript, fused.value,
                                 primary_outcome, review_outcome).value

\* C20 witness: a second turn, started with the services already
\* initialized by the first, returned an analysis and a reviewed response
C20_Witness ==
    /\ Generated
    /\ path = "http"
    /\ now = 2
    /\ analysis.timestamp = 2
    /\ analysis.is_crisis
    /\ response.model_used = model_used_pair
    /\ response.text = <<"aila", "daam">>

\* the process_voice requests of session s whose pipeline (analysis
\* followed by generation) is in flight
InFlight(s) ==
    { r \in HttpRequests :
          http[r].session_id = s /\ http[r].pc \in {"analyze", "generate"} }

\* C21: for every conversation at most one pipeline invocation is in
\* flight at any time: two process_voice requests for the same session_id
\* do not run the pipeline concurrently.
C21_OneInFlightPerSession ==
    \A s \in Sessions : Cardinality(InFlight(s)) <= 1

\* C22: the indicators of the rule-based result are a set of categories: a
\* category is among them exactly when at least one of its patterns occurs
\* in the transcript, and no category is there more than once, also when
\* several patterns of one category occur.
C22_IndicatorsAreASet ==
    Scanned
    => LET indicators == rule_based.crisis_assessment.indicators
           hit        == HitCategories(transcript)
       IN  /\ {indicators[i] : i \in 1..Len(indicators)} = hit
           /\ Len(indicators) = Cardinality(hit)

\* analyze_user_input has just returned to the handler
Analyzed == pc = "generate"

\* C23: the frame of fusion: in both branches every field of the analyzer
\* result other than crisis_assessment and is_crisis is in the fused
\* output unchanged; the fused output has no other key than those, the
\* crisis_assessment, is_crisis and the timestamp that analyze_user_input
\* adds after fusion (no rule-based field but crisis_assessment is
\* copied); and the two input assessments are as they were returned.
C23_FusionFrame ==
    Analyzed
    => /\ \A k \in DOMAIN llm_based \ {"crisis_assessment", "is_crisis"} :
              /\ k \in DOMAIN analysis
              /\ analysis[k] = llm_based[k]
       /\ DOMAIN analysis
              = DOMAIN llm_based \cup {"crisis_assessment", "is_crisis", "timestamp"}
       /\ analysis.timestamp = now
       /\ llm_based = llm_based_analysis(therapy_service[Owner].client,
                                         analyzer_outcome)
       /\ rule_based = rule_based_analysis(crisis_patterns, transcript)

\* C23 witness: the safety-first branch (critical rule-based level) keeps
\* the analyzer's emotional_state, source and confidence
C23_Witness ==
    /\ Analyzed
    /\ RuleLevel = "critical"
    /\ analyzer_outcome.kind = "json_object"
    /\ analyzer_outcome.payload
           = WithEmotion(WithCrisis(Merge(SchemaRest, OwnKeys), LowCrisis),
                         "sadness")
    /\ analysis.emotional_state = "sadness"
    /\ analysis.source = "model"
    /\ analysis.confidence = 80
    /\ analysis.crisis_assessment = rule_based.crisis_assessment
    /\ analysis.timestamp = now

\* the context generate_response built for the primary request that is in
\* flight (the websocket of the application being the one conversation)
PrimaryContext == build_therapeutic_context(transcript, analysis, "session")

\* C24: the context handed to the primary generator reflects the turn: its
\* crisis flag is the is_crisis of the fused analysis of the same turn, and
\* its turn number is the number of that turn in the conversation (the
\* n-th turn is rendered as turn n).
C24_ContextReflectsTurn ==
    pc = "primary_wait"
    => /\ PrimaryContext.session_metadata.is_crisis = analysis.is_crisis
       /\ PrimaryContext.session_metadata.turn_number = now

\* C25: when no review model is configured (no GOOGLE_API_KEY, so
\* gemini_client stays unset) and the primary request returns a text,
\* generate_response returns the primary model's reply: model_used is not
\* fallback and the text is the primary text.
C25_NoReviewerKeepsPrimary ==
    (/\ Responded
     /\ ~settings.GOOGLE_API_KEY
     /\ primary_outcome.kind = "ok"
     /\ primary_outcome.content # NoneText)
    => /\ response.model_used # "fallback"
       /\ response.text = response_text

\* C26: every response generate_response returns, generated or fallback,
\* carries safety_assessment {risk_level low, intervention_required false},
\* whatever the fused analysis says.
C26_SafetyAssessmentConstant ==
    Responded
    => response.safety_assessment
           = [risk_level |-> "low", intervention_required |-> FALSE]

\* C26 witness: a generated response for a fused analysis that is a crisis
\* with a critical risk level
C26_Witness ==
    /\ Tagged
    /\ analysis.is_crisis
    /\ analysis.crisis_assessment.risk_level = "critical"
    /\ response.safety_assessment.risk_level = "low"
    /\ ~response.safety_assessment.intervention_required

\* analyze_input has answered a request for an existing session whose
\* fusion returned
AnalyzeAnswered == pc = "done" /\ path = "analyze" /\ Fused

\* C27: for an existing session the analyze endpoint answers with an
\* AnalysisResponse carrying the fused is_crisis and crisis_assessment,
\* also when the rule-based level is high or critical and when the analyzer
\* call failed and its default was used; it does not answer 500 then.
C27_AnalyzeEndpointAnswers ==
    (AnalyzeAnswered /\ (RuleLevel \in {"high", "critical"} \/ AnalyzerFailed))
    => /\ "status_code" \notin DOMAIN result
       /\ result.is_crisis = analysis.is_crisis
       /\ result.crisis_assessment.risk_level
              = analysis.crisis_assessment.risk_level

\* an endpoint has answered with an error whose cause was the HTTPException
\* with the given status and detail
AnsweredAfter(cause) ==
    /\ pc = "done"
    /\ "detail" \in DOMAIN result
    /\ result.detail[2] = cause

\* C28: each session endpoint answers 404 when the session does not exist,
\* and process_voice answers 400 when the audio payload is missing: these
\* statuses reach the client and are not replaced by a 500.
C28_ClientErrorsReachClient ==
    /\ AnsweredAfter("404: Session not found") => result.status_code = 404
    /\ AnsweredAfter("400: Missing audio base64 data") => result.status_code = 400

\* the manager's four collections agree with each other
ManagerConsistent(m) ==
    /\ \A s \in DOMAIN m.session_connections :
           Get(m.connection_sessions, m.session_connections[s], "None") = s
    /\ \A w \in DOMAIN m.connection_sessions :
           Get(m.session_connections, m.connection_sessions[w], "None") = w
    /\ DOMAIN m.session_metadata = DOMAIN m.session_connections
    /\ DOMAIN m.connection_sessions
           = {m.active_connections[i] : i \in DOMAIN m.active_connections}

\* C29: after any sequence of connect, disconnect, send_personal_message,
\* broadcast and cleanup_inactive_sessions, each websocket being connected at
\* most once, session_connections and connection_sessions are inverse
\* one-to-one maps, session_metadata has the keys of session_connections, and
\* the websockets of connection_sessions are those of active_connections;
\* disconnect of a websocket the manager does not hold (never connected, or
\* disconnected before) leaves the manager as it is and does not raise.
C29_ManagerConsistent ==
    /\ ManagerConsistent(manager)
    /\ \A w \in WebSockets :
           (w \notin DOMAIN manager.connection_sessions
            /\ ~InList(w, manager.active_connections))
           => disconnect(manager, w) = [manager |-> manager, raised |-> FALSE]

\* w1 was connected and has been disconnected, w2 is still held, its session
\* having been active after its connect
C29_Witness ==
    /\ socket["w1"].state = "closed"
    /\ "w1" \notin DOMAIN manager.connection_sessions
    /\ "w2" \in DOMAIN manager.connection_sessions
    /\ LET s == manager.connection_sessions["w2"]
       IN  manager.session_metadata[s].last_activity
               > manager.session_metadata[s].created_at
    /\ broadcasting # <<>>

\* the endpoint of w is between its connect and its handling of the disconnect
EndpointRunning(w) == socket[w].pc \in {"receive", "turn", "send"}

\* C30: while a connection is open and its endpoint is running, get_session_id
\* returns the session id assigned at connect, and every turn that reached
\* generate_response passed that session id, also with the cleanup loop
\* running between or during the turns.
C30_SessionIdentityStable ==
    \A w \in WebSockets :
        (socket[w].state = "open" /\ EndpointRunning(w))
        => /\ get_session_id(manager, w) = socket[w].session_id
           /\ socket[w].passed \in {"unset", socket[w].session_id}
====
